---- MODULE Spec2Model ----
(***************************************************************************)
(* A model of EC2Instances.py: the GET /get_ec2_instances handler, its     *)
(* parameter validation, the memoized inventory call and the page slice.   *)
(*                                                                         *)
(* Strings are TLA+ strings; Python's "<" on strings is modelled by the    *)
(* position of a string in StrOrder, which lists the strings of the model  *)
(* in code-point order.  Python's None is the value None below.  An        *)
(* optional query parameter is a sequence of length 0 (absent) or 1.       *)
(***************************************************************************)
EXTENDS Integers, Sequences, FiniteSets, TLC

\* ------------------------------------------------------------ bounds
\* Seconds added to the clock by one Tick.
TickStep == 150
\* The clock stops advancing here.
MaxTime == 320
\* Largest page number and page size a request carries in SpecPaging.
MaxPage == 5
MaxPageSize == 3
\* Pages down to -MaxNegPage are requested in SpecPaging.
MaxNegPage == 2

\* ------------------------------------------------------------ constants
None == "None"

\* EC2Instances.py:9
instance_tags ==
    {"Name", "ID", "Type", "State", "AvailabilityZone", "PublicIP", "PrivateIPs"}
INVALID_REGION_MESSAGE == "Invalid region name"
\* The message goes on to list instance_tags, in the set's iteration order.
INVALID_SORT_BY_MESSAGE == "Invalid sort by attribute."
INVALID_PAGE_SIZE == "Invalid page size.\nPage size must be positive numbers"
\* @cache.memoize(200)
MemoizeTimeout == 200
\* request.args.get('page', 1), request.args.get('page_size', 5)
DefaultPage == 1
DefaultPageSize == 5

\* ------------------------------------------------------------ strings
\* The strings the model's records hold, in Python's string order.
StrOrder ==
    << "10.0.0.1", "10.0.0.2", "10.0.0.3", "3.3.3.3", "52.1.1.1",
       "A_Instance", "B_Instance", "N/A", "eu-west-1a", "eu-west-1b",
       "i-01", "i-02", "i-03", "i-04", "running", "stopped",
       "t2.micro", "t3.large" >>

StrRank(s) == CHOOSE i \in 1..Len(StrOrder) : StrOrder[i] = s

\* str.__lt__
StrLess(a, b) == StrRank(a) < StrRank(b)

\* list.__lt__ on lists of strings: lexicographic, a proper prefix is less.
RECURSIVE ListLess(_, _)
ListLess(a, b) ==
    IF b = <<>> THEN FALSE
    ELSE IF a = <<>> THEN TRUE
    ELSE IF StrLess(Head(a), Head(b)) THEN TRUE
    ELSE IF StrLess(Head(b), Head(a)) THEN FALSE
    ELSE ListLess(Tail(a), Tail(b))

\* ------------------------------------------------------------ upstream data
\* What describe_regions() answers.
valid_regions == {"eu-west-1", "us-east-1"}

\* Raw instances as describe_instances() returns them.  boto3 leaves the
\* Tags key out of an instance without tags and the PublicIpAddress key out
\* of an instance without a public address.
Raw1 ==
    [ Tags |-> << [Key |-> "Name", Value |-> "B_Instance"] >>,
      InstanceId |-> "i-01", InstanceType |-> "t2.micro",
      State |-> [Name |-> "running"],
      Placement |-> [AvailabilityZone |-> "eu-west-1a"],
      PublicIpAddress |-> "52.1.1.1",
      NetworkInterfaces |-> << [PrivateIpAddress |-> "10.0.0.2"] >> ]
Raw2 ==
    [ Tags |-> << [Key |-> "Name", Value |-> "A_Instance"],
                  [Key |-> "env", Value |-> "B_Instance"] >>,
      InstanceId |-> "i-02", InstanceType |-> "t3.large",
      State |-> [Name |-> "stopped"],
      Placement |-> [AvailabilityZone |-> "eu-west-1b"],
      NetworkInterfaces |-> << [PrivateIpAddress |-> "10.0.0.1"],
                               [PrivateIpAddress |-> "10.0.0.3"] >> ]
Raw3 ==
    [ Tags |-> << [Key |-> "env", Value |-> "B_Instance"] >>,
      InstanceId |-> "i-03", InstanceType |-> "t2.micro",
      State |-> [Name |-> "running"],
      Placement |-> [AvailabilityZone |-> "eu-west-1a"],
      PublicIpAddress |-> "3.3.3.3",
      NetworkInterfaces |-> << [PrivateIpAddress |-> "10.0.0.1"] >> ]
\* An instance that carries no tags.
Raw4 ==
    [ InstanceId |-> "i-04", InstanceType |-> "t2.micro",
      State |-> [Name |-> "running"],
      Placement |-> [AvailabilityZone |-> "eu-west-1a"],
      PublicIpAddress |-> "52.1.1.1",
      NetworkInterfaces |-> << [PrivateIpAddress |-> "10.0.0.3"] >> ]

\* describe_instances()['Reservations']: reservations, each with Instances.
Res(instances) == [Instances |-> instances]
InvEmpty == << >>
InvThree == << Res(<<Raw1>>), Res(<<Raw2, Raw3>>) >>
InvOne == << Res(<<Raw3>>) >>
InvTwo == << Res(<<Raw3, Raw1>>) >>
InvFour == << Res(<<Raw3, Raw1>>), Res(<<Raw2, Raw1>>) >>
InvUntagged == << Res(<<Raw2, Raw4>>) >>

\* ------------------------------------------------------------ pure code
\* dict.get(key, default)
DictGet(d, key, default) == IF key \in DOMAIN d THEN d[key] ELSE default

\* request.args.get(name, default) of an optional query parameter.
ArgGet(opt, default) == IF opt = <<>> THEN default ELSE opt[1]

\* instance.get('Tags')[0]['Value'] raises TypeError on a missing Tags key
\* and IndexError on an empty list.
DetailsRaise(instance) ==
    \/ "Tags" \notin DOMAIN instance
    \/ instance.Tags = <<>>

\* The instance_details dict of lines 91-99.
InstanceDetails(instance) ==
    [ Name |-> instance.Tags[1].Value,
      ID |-> instance.InstanceId,
      Type |-> instance.InstanceType,
      State |-> instance.State.Name,
      AvailabilityZone |-> instance.Placement.AvailabilityZone,
      PublicIP |-> DictGet(instance, "PublicIpAddress", "N/A"),
      PrivateIPs |-> [i \in 1..Len(instance.NetworkInterfaces) |->
                         instance.NetworkInterfaces[i].PrivateIpAddress] ]

\* The instances of all reservations, in order (the two for loops).
RECURSIVE Flatten(_)
Flatten(response) ==
    IF response = <<>> THEN <<>>
    ELSE Head(response).Instances \o Flatten(Tail(response))

\* x[sort_by] < y[sort_by] as list.sort compares two keys.
KeyLess(x, y, sort_by) ==
    IF sort_by = "PrivateIPs" THEN ListLess(x[sort_by], y[sort_by])
    ELSE StrLess(x[sort_by], y[sort_by])

\* list.sort(key=...) is stable: x goes behind every element not greater.
RECURSIVE InsertSorted(_, _, _)
InsertSorted(x, s, sort_by) ==
    IF s = <<>> THEN <<x>>
    ELSE IF KeyLess(x, Head(s), sort_by) THEN <<x>> \o s
    ELSE <<Head(s)>> \o InsertSorted(x, Tail(s), sort_by)

RECURSIVE SortFrom(_, _, _)
SortFrom(done, rest, sort_by) ==
    IF rest = <<>> THEN done
    ELSE SortFrom(InsertSorted(Head(rest), done, sort_by), Tail(rest), sort_by)

\* A sort that is not stable: x goes in front of the elements equal to it.
RECURSIVE InsertBeforeEqual(_, _, _)
InsertBeforeEqual(x, s, sort_by) ==
    IF s = <<>> THEN <<x>>
    ELSE IF ~KeyLess(Head(s), x, sort_by) THEN <<x>> \o s
    ELSE <<Head(s)>> \o InsertBeforeEqual(x, Tail(s), sort_by)

RECURSIVE SortFromUnstable(_, _, _)
SortFromUnstable(done, rest, sort_by) ==
    IF rest = <<>> THEN done
    ELSE SortFromUnstable(InsertBeforeEqual(Head(rest), done, sort_by),
                          Tail(rest), sort_by)

ListSortUnstable(instances, sort_by) == SortFromUnstable(<<>>, instances, sort_by)

ListSort(instances, sort_by) == SortFrom(<<>>, instances, sort_by)

\* Python truthiness of sort_by: None and "" are false.
Truthy(sort_by) == sort_by # None /\ sort_by # ""

\* The body of get_all_ec2_instances_in_region on the given response.
GetAllBody(response, sort_by) ==
    LET raws == Flatten(response) IN
    IF \E i \in 1..Len(raws) : DetailsRaise(raws[i])
    THEN [raised |-> TRUE, value |-> <<>>, source |-> <<>>]
    ELSE LET instances == [i \in 1..Len(raws) |-> InstanceDetails(raws[i])] IN
         [ raised |-> FALSE,
           value |-> IF Truthy(sort_by) THEN ListSort(instances, sort_by)
                     ELSE instances,
           source |-> instances ]

\* s[start:stop] of a Python list, negative indices counted from the end.
PyIndex(i, n) ==
    IF i < 0 THEN (IF i + n < 0 THEN 0 ELSE i + n)
    ELSE (IF i > n THEN n ELSE i)

PySlice(s, start, stop) ==
    LET lo == PyIndex(start, Len(s))
        hi == PyIndex(stop, Len(s))
    IN IF lo < hi THEN SubSeq(s, lo + 1, hi) ELSE <<>>

\* PageOf with the last record of each page left out.
PageOfEndShort(instances, page, page_size) ==
    LET start_index == (page - 1) * page_size
        end_index == start_index + page_size - 1
    IN PySlice(instances, start_index, end_index)

\* PageOf counting pages from 0.
PageOfZeroBased(instances, page, page_size) ==
    LET start_index == page * page_size
        end_index == start_index + page_size
    IN PySlice(instances, start_index, end_index)

\* Lines 123-126: the page of a list.
PageOf(instances, page, page_size) ==
    LET start_index == (page - 1) * page_size
        end_index == start_index + page_size
    IN PySlice(instances, start_index, end_index)

\* is_valid_region: the error message, or None.
is_valid_region(region_name) ==
    IF region_name \notin valid_regions THEN INVALID_REGION_MESSAGE ELSE None

\* is_valid_sort_by
is_valid_sort_by(sort_by) ==
    IF sort_by \notin instance_tags /\ Truthy(sort_by)
    THEN INVALID_SORT_BY_MESSAGE ELSE None

\* is_valid_page_size
is_valid_page_size(page_size) ==
    IF page_size <= 0 THEN INVALID_PAGE_SIZE ELSE None

\* check_parameters_validation: the first error, or None.
check_parameters_validation(region_name, sort_by, page_size) ==
    IF is_valid_region(region_name) # None THEN is_valid_region(region_name)
    ELSE IF is_valid_sort_by(sort_by) # None THEN is_valid_sort_by(sort_by)
    ELSE IF is_valid_page_size(page_size) # None
         THEN is_valid_page_size(page_size)
    ELSE None

\* ------------------------------------------------------------ state
Workers == {1, 2}

VARIABLES
    upstream,   \* region -> what describe_instances() answers there now
    cache,      \* the SimpleCache behind cache.memoize: key -> entry
    now,        \* time(), in seconds
    last,       \* the last request answered and its response
    wk          \* worker -> the request it is in the middle of (SpecConc)

vars == <<upstream, cache, now, last, wk>>

\* The arguments memoize keys an entry by.
Keys == valid_regions \X (instance_tags \cup {None, ""})

\* A key never stored.  An entry holds the time it expires and the value;
\* created and source (the records in the order fetched) are history.
NoEntry ==
    [present |-> FALSE, created |-> 0, expires |-> 0, value |-> <<>>,
     source |-> <<>>]

\* Fresh with the comparison turned round.
FreshReversed(entry, t) == entry.present /\ entry.expires < t

\* SimpleCache.get: the entry counts while its expiry lies ahead.
Fresh(entry, t) == entry.present /\ entry.expires > t

\* SimpleCache.set with memoize's timeout.
CacheSet(c, key, rv, t) ==
    [c EXCEPT ![key] =
        [present |-> TRUE, created |-> t, expires |-> t + MemoizeTimeout,
         value |-> rv.value, source |-> rv.source]]

NoRequest ==
    [region |-> None, sort_by |-> None, page |-> DefaultPage,
     page_size |-> DefaultPageSize, calls |-> 0,
     raised |-> FALSE, items |-> <<>>, status |-> 0, error |-> None,
     body |-> <<>>]

\* A worker between requests.
Idle ==
    [pc |-> "idle", req |-> NoRequest,
     rv |-> [raised |-> FALSE, value |-> <<>>, source |-> <<>>]]

\* http_error(text): status 400 and the error body.
http_error(req, text) ==
    [req EXCEPT !.status = 400, !.error = text]

\* Line 126-129: the page of the list the memoized call returned, status 200.
Respond(req, items, calls) ==
    [req EXCEPT !.calls = calls, !.items = items, !.status = 200,
                !.body = PageOf(items, req.page, req.page_size)]

\* An exception leaving the view function: Flask answers 500.
InternalError(req) ==
    [req EXCEPT !.calls = 1, !.raised = TRUE, !.status = 500]

\* Lines 112-115: the request as the handler reads it.
ReadArgs(region_arg, sort_by_arg, page_arg, page_size_arg) ==
    [NoRequest EXCEPT
        !.region = ArgGet(region_arg, None),
        !.sort_by = ArgGet(sort_by_arg, None),
        !.page = ArgGet(page_arg, DefaultPage),
        !.page_size = ArgGet(page_size_arg, DefaultPageSize)]

\* get_request_ec2_instances, start to end, as one step.
GetRequest(region_arg, sort_by_arg, page_arg, page_size_arg) ==
    LET req == ReadArgs(region_arg, sort_by_arg, page_arg, page_size_arg)
        err == check_parameters_validation(req.region, req.sort_by,
                                           req.page_size)
    IN IF err # None
       THEN /\ last' = http_error(req, err)
            /\ UNCHANGED <<upstream, cache, now, wk>>
       ELSE LET key == <<req.region, req.sort_by>>
                rv == GetAllBody(upstream[req.region], req.sort_by)
            IN IF Fresh(cache[key], now)
               THEN /\ last' = Respond(req, cache[key].value, 0)
                    /\ UNCHANGED <<upstream, cache, now, wk>>
               ELSE IF rv.raised
               THEN /\ last' = InternalError(req)
                    /\ UNCHANGED <<upstream, cache, now, wk>>
               ELSE /\ cache' = CacheSet(cache, key, rv, now)
                    /\ last' = Respond(req, rv.value, 1)
                    /\ UNCHANGED <<upstream, now, wk>>

\* Time passes.
Tick ==
    /\ now + TickStep <= MaxTime
    /\ now' = now + TickStep
    /\ UNCHANGED <<upstream, cache, last, wk>>

\* Instances are launched or terminated in a region.
UpstreamChange(region, response) ==
    /\ upstream[region] # response
    /\ upstream' = [upstream EXCEPT ![region] = response]
    /\ UNCHANGED <<cache, now, last, wk>>

\* ------------------------------------------------------------ Spec
\* Requests for the cached lists, default page and page size, while time
\* passes and the inventory of eu-west-1 changes.
CachedCalls ==
    { <<"eu-west-1", <<>>>>, <<"eu-west-1", <<"Name">>>>,
      <<"eu-west-1", <<"PublicIP">>>>, <<"us-east-1", <<"Name">>>> }
Inventories == {InvThree, InvTwo, InvUntagged}

\* No request yet, nothing cached, eu-west-1 holding one of the inventories.
InitWith(inventories) ==
    /\ upstream \in {[r \in valid_regions |->
                        IF r = "eu-west-1" THEN inv ELSE InvOne] :
                     inv \in inventories}
    /\ cache = [k \in Keys |-> NoEntry]
    /\ now = 0
    /\ last = NoRequest
    /\ wk = [w \in Workers |-> Idle]

Init == InitWith({InvThree})

Next ==
    \/ \E c \in CachedCalls : GetRequest(<<c[1]>>, c[2], <<>>, <<>>)
    \/ Tick
    \/ \E inv \in Inventories : UpstreamChange("eu-west-1", inv)

Spec == Init /\ [][Next]_vars

\* ------------------------------------------------------------ SpecValidation
\* Requests with every mix of missing, invalid and valid parameters.
RegionArgs == {<<>>, <<"">>, <<"Invalid name">>, <<"eu-west-1">>}
SortArgs == {<<>>, <<"">>, <<"Name">>, <<"PrivateIPs">>, <<"Colour">>}
SizeArgs == {<<>>, <<-1>>, <<0>>, <<1>>}

InitValidation == InitWith({InvThree, InvUntagged})

NextValidation ==
    \E r \in RegionArgs, s \in SortArgs, p \in {<<>>, <<2>>}, z \in SizeArgs :
        GetRequest(r, s, p, z)

SpecValidation == InitValidation /\ [][NextValidation]_vars

\* ------------------------------------------------------------ SpecPaging
\* Requests for every page and page size of lists of every length.
PageArgs == {<<>>} \cup {<<p>> : p \in (0 - MaxNegPage)..MaxPage}
PageSizeArgs == {<<>>} \cup {<<z>> : z \in 0..MaxPageSize}

InitPaging ==
    InitWith({InvEmpty, InvOne, InvTwo, InvThree, InvFour, InvUntagged})

NextPaging ==
    \E s \in {<<>>, <<"">>}, p \in PageArgs, z \in PageSizeArgs :
        GetRequest(<<"eu-west-1">>, s, p, z)

SpecPaging == InitPaging /\ [][NextPaging]_vars

\* ------------------------------------------------------------ SpecConc
\* Requests served by several workers at once.  The handler is cut where
\* another request can run in between: after the lookup that misses, and
\* after the inventory call, before the result is stored.

\* The handler up to cache.get: an error, a hit, or a miss to be loaded.
Begin(w, region_arg, sort_by_arg, page_arg, page_size_arg) ==
    LET req == ReadArgs(region_arg, sort_by_arg, page_arg, page_size_arg)
        err == check_parameters_validation(req.region, req.sort_by,
                                           req.page_size)
        key == <<req.region, req.sort_by>>
    IN /\ wk[w].pc = "idle"
       /\ IF err # None
          THEN /\ last' = http_error(req, err)
               /\ UNCHANGED <<upstream, cache, now, wk>>
          ELSE IF Fresh(cache[key], now)
          THEN /\ last' = Respond(req, cache[key].value, 0)
               /\ UNCHANGED <<upstream, cache, now, wk>>
          ELSE /\ wk' = [wk EXCEPT ![w] = [Idle EXCEPT !.pc = "call",
                                                       !.req = req]]
               /\ UNCHANGED <<upstream, cache, now, last>>

\* The body of get_all_ec2_instances_in_region runs.
Call(w) ==
    LET req == wk[w].req
        rv == GetAllBody(upstream[req.region], req.sort_by)
    IN /\ wk[w].pc = "call"
       /\ IF rv.raised
          THEN /\ last' = InternalError(req)
               /\ wk' = [wk EXCEPT ![w] = Idle]
               /\ UNCHANGED <<upstream, cache, now>>
          ELSE /\ wk' = [wk EXCEPT ![w].pc = "store", ![w].rv = rv]
               /\ UNCHANGED <<upstream, cache, now, last>>

\* memoize stores the result, the handler slices it and answers.
Store(w) ==
    LET req == wk[w].req IN
    /\ wk[w].pc = "store"
    /\ cache' = CacheSet(cache, <<req.region, req.sort_by>>, wk[w].rv, now)
    /\ last' = Respond(req, wk[w].rv.value, 1)
    /\ wk' = [wk EXCEPT ![w] = Idle]
    /\ UNCHANGED <<upstream, now>>

NextConc ==
    \/ \E w \in Workers, s \in {<<>>, <<"Name">>} :
           Begin(w, <<"eu-west-1">>, s, <<>>, <<>>)
    \/ \E w \in Workers : Call(w)
    \/ \E w \in Workers : Store(w)
    \/ \E inv \in Inventories : UpstreamChange("eu-west-1", inv)

SpecConc == Init /\ [][NextConc]_vars

\* ------------------------------------------------------------ properties
\* The key of the request last answered.
LastKey == <<last.region, last.sort_by>>

\* The last request passed the three checks as the text of the contract
\* states them.
PassedChecks ==
    /\ last.status # 0
    /\ last.region \in valid_regions
    /\ last.sort_by \in instance_tags \cup {None, ""}
    /\ last.page_size > 0

\* This step answers a request for key k that reached the memoized call.
Answers(k) ==
    /\ last' # last
    /\ last'.status \in {200, 500}
    /\ last'.region = k[1]
    /\ last'.sort_by = k[2]

\* items[start:end] clipped to the list, for start >= 0, written out.
Clipped(items, page, page_size) ==
    LET startIndex == (page - 1) * page_size
        endIndex == startIndex + page_size
        stop == IF endIndex > Len(items) THEN Len(items) ELSE endIndex
    IN IF startIndex >= Len(items) THEN <<>>
       ELSE [i \in 1..(stop - startIndex) |-> items[startIndex + i]]

RECURSIVE ConcatPages(_, _, _, _)
ConcatPages(items, page_size, from, to) ==
    IF from > to THEN <<>>
    ELSE PageOf(items, from, page_size)
             \o ConcatPages(items, page_size, from + 1, to)

Perms(n) == {f \in [1..n -> 1..n] : \A i, j \in 1..n : i # j => f[i] # f[j]}

KeyEqual(x, y, sort_by) == ~KeyLess(x, y, sort_by) /\ ~KeyLess(y, x, sort_by)

\* v is source rearranged, ascending by sort_by, equal keys in source order.
IsStableSortOf(v, source, sort_by) ==
    /\ Len(v) = Len(source)
    /\ \E f \in Perms(Len(v)) :
          /\ \A i \in 1..Len(v) : v[i] = source[f[i]]
          /\ \A i, j \in 1..Len(v) :
                i < j => /\ ~KeyLess(v[j], v[i], sort_by)
                         /\ KeyEqual(v[i], v[j], sort_by) => f[i] < f[j]

\* The inventories a region can hold in Spec and SpecConc.
RegionInventories(region) ==
    IF region = "eu-west-1" THEN Inventories ELSE {InvOne}

\* An entry is one whole result of the memoized call for its own key.
WholeEntry(k) ==
    LET e == cache[k] IN
    /\ \E inv \in RegionInventories(k[1]) :
          /\ ~GetAllBody(inv, None).raised
          /\ e.source = GetAllBody(inv, None).source
    /\ IF Truthy(k[2]) THEN IsStableSortOf(e.value, e.source, k[2])
       ELSE e.value = e.source

\* C1: the checks run in the order region, sortBy, pageSize; the response is
\* 400 with the message of the first failing check only, and 200 when no
\* check fails.
C1_FirstFailureElse200 ==
    last.status # 0 =>
        IF last.region \notin valid_regions
        THEN last.status = 400 /\ last.error = INVALID_REGION_MESSAGE
        ELSE IF last.sort_by \notin instance_tags \cup {None, ""}
        THEN last.status = 400 /\ last.error = INVALID_SORT_BY_MESSAGE
        ELSE IF last.page_size <= 0
        THEN last.status = 400 /\ last.error = INVALID_PAGE_SIZE
        ELSE last.status = 200 /\ last.error = None

\* The part of C1 about failing checks alone: the first failing check decides
\* the response, and a request passing all three is never answered 400.
ValidationOrder ==
    last.status # 0 =>
        IF last.region \notin valid_regions
        THEN last.status = 400 /\ last.error = INVALID_REGION_MESSAGE
        ELSE IF last.sort_by \notin instance_tags \cup {None, ""}
        THEN last.status = 400 /\ last.error = INVALID_SORT_BY_MESSAGE
        ELSE IF last.page_size <= 0
        THEN last.status = 400 /\ last.error = INVALID_PAGE_SIZE
        ELSE last.status \in {200, 500} /\ last.error = None

\* C2: for every stored list and every page size p >= 1, pages 1, 2, 3, ...
\* concatenated give the list back; a page before the end holds p records,
\* the last one the rest, every later page none.
C2_PagesReproduceList ==
    \A k \in Keys : cache[k].present =>
        LET items == cache[k].value IN
        \A p \in 1..MaxPageSize :
            /\ ConcatPages(items, p, 1, Len(items) + 1) = items
            /\ \A page \in 1..(Len(items) + 2) :
                  LET got == PageOf(items, page, p) IN
                  /\ page * p <= Len(items) => Len(got) = p
                  /\ (page - 1) * p >= Len(items) => got = <<>>
                  /\ Len(got) <= p

\* A second page shorter than the page size was served.
C2_Witness ==
    /\ last.status = 200
    /\ last.page = 2
    /\ last.page_size = 3
    /\ Len(last.items) = 4
    /\ Len(last.body) = 1

C4_PageIsClippedSlice ==
    (PassedChecks /\ last.page >= 1 /\ ~last.raised) =>
        /\ last.status = 200
        /\ last.items = cache[LastKey].value
        /\ last.body = Clipped(last.items, last.page, last.page_size)

\* A page past the end of a list that is not empty was answered.
C4_Witness ==
    /\ last.status = 200
    /\ last.page >= 2
    /\ last.items # <<>>
    /\ (last.page - 1) * last.page_size >= Len(last.items)
    /\ last.body = <<>>

\* C5: every entry is the fetched records of its own region, ascending by
\* its own sort key with ties in source order, or in source order under the
\* absent or empty key; a step changes no entry but the one of the request
\* it answers.
C5_EntriesPerKey ==
    /\ [](\A k \in Keys : cache[k].present => WholeEntry(k))
    /\ [][\A k \in Keys :
             cache'[k] # cache[k] => k = <<last'.region, last'.sort_by>>]_vars

\* The same three records are stored in three different orders.
C5_Witness ==
    /\ cache[<<"eu-west-1", None>>].present
    /\ cache[<<"eu-west-1", "Name">>].present
    /\ cache[<<"eu-west-1", "PublicIP">>].present
    /\ cache[<<"us-east-1", "Name">>].present
    /\ Len(cache[<<"eu-west-1", None>>].value) = 3
    /\ cache[<<"eu-west-1", "Name">>].source = cache[<<"eu-west-1", None>>].value
    /\ cache[<<"eu-west-1", "PublicIP">>].source
           = cache[<<"eu-west-1", None>>].value
    /\ cache[<<"eu-west-1", "Name">>].value # cache[<<"eu-west-1", None>>].value
    /\ cache[<<"eu-west-1", "PublicIP">>].value
           # cache[<<"eu-west-1", "Name">>].value

\* C6: an entry older than 200 s is not returned: the request that finds it
\* calls upstream once, stores a fresh entry created now, and returns the
\* fresh list; and nothing but a request changes the cache.
C6_ExpiredIsRefreshed ==
    [][/\ \A k \in Keys :
             (Answers(k) /\ cache[k].present
                         /\ now - cache[k].created > MemoizeTimeout)
             => /\ last'.calls = 1
                /\ last'.status = 200
                /\ cache'[k].present
                /\ cache'[k].created = now
                /\ last'.items = cache'[k].value
       /\ cache' # cache => last'.calls = 1]_vars

\* The part of C6 that does not depend on the call succeeding: an entry
\* older than 200 s is never served, and only a request changes the cache.
ExpiredNeverServed ==
    [][/\ \A k \in Keys :
             (Answers(k) /\ cache[k].present
                         /\ now - cache[k].created > MemoizeTimeout)
             => last'.calls = 1
       /\ cache' # cache => last'.calls = 1]_vars

\* C7: normalization succeeds on every raw record the source returns and
\* gives a record with all seven fields.
C7_EveryRecordNormalized ==
    (PassedChecks /\ last.calls = 1) =>
        /\ ~last.raised
        /\ last.status = 200
        /\ \A i \in 1..Len(last.items) : DOMAIN last.items[i] = instance_tags

\* C8: entries are whole under every interleaving, and once the concurrent
\* misses for a key have all finished, the key holds one whole result.
C8_MissesLeaveAnEntry ==
    /\ \A k \in Keys : cache[k].present => WholeEntry(k)
    /\ (/\ \A w \in Workers : wk[w].pc = "idle"
        /\ PassedChecks
        /\ last.calls = 1) => cache[LastKey].present

\* The part of C8 about whole entries alone.
EntriesWhole == \A k \in Keys : cache[k].present => WholeEntry(k)

\* C10: a request with page <= 0 is never answered 200 with records.
C10_NoRecordsForNonPositivePage ==
    (last.status = 200 /\ last.page <= 0) => last.body = <<>>

====
